---- MODULE Spec2Model ----
(***************************************************************************)
(* Materialize Terraform provider: the Kafka connection statement builder  *)
(* (pkg/materialize/connection_kafka.go), the Kafka connection create      *)
(* lifecycle (pkg/resources/resource_connection_kafka.go) and the secret   *)
(* grant create (pkg/resources/resource_grant_secret.go).                  *)
(*                                                                         *)
(* A Go string is a sequence of tokens; a token is a run of characters     *)
(* holding no single quote, or the single quote itself.  A statement is    *)
(* the sequence of pieces written to the strings.Builder, one piece per    *)
(* WriteString call, so equal piece sequences are equal byte strings.      *)
(***************************************************************************)
EXTENDS Integers, Sequences, FiniteSets, TLC

VARIABLES
    b,          \* *ConnectionKafkaBuilder: the builder's fields
    desc,       \* the last argument handed to each setter (logical content)
    bpc,        \* builder session: "idle" | "building" | "built"
    out,        \* the statement Create() returned, as pieces
    d,          \* schema.ResourceData of the connection: declared fields and Id
    pc,         \* position in connectionKafkaCreate
    err,        \* the err local of the failed ownership / comment step
    cancelled,  \* ctx.Done() is closed
    issued,     \* statements the store executed, in order, with their result
    store,      \* the store's id of the connection object, empty when absent
    gd,         \* schema.ResourceData of the grant: declared fields and Id
    gpc,        \* position in grantSecretCreate
    roleId,     \* the roleId local
    objId,      \* the i local
    catalog,    \* the store's ids of the role and of the secret
    gissued,    \* statements the store executed for the grant
    gdiags,     \* diag.Diagnostics grantSecretCreate returned
    diags       \* diag.Diagnostics connectionKafkaCreate returned

vars == <<b, desc, bpc, out, d, pc, err, cancelled, issued, store,
          gd, gpc, roleId, objId, catalog, gissued, gdiags, diags>>

builderVars == <<b, desc, bpc, out>>
createVars == <<d, pc, err, cancelled, issued, store, diags>>
grantVars == <<gd, gpc, roleId, objId, catalog, gissued, gdiags>>

\* Longest broker list handed to KafkaBrokers.
MaxBrokers == 2

----------------------------------------------------------------------------
(* Values *)

EmptyString == <<>>

IdentifierSchemaStruct(name, schemaName, databaseName) ==
    [Name |-> name, SchemaName |-> schemaName, DatabaseName |-> databaseName]

NoIdentifier == IdentifierSchemaStruct(EmptyString, EmptyString, EmptyString)

ValueSecretStruct(text, secret) == [Text |-> text, Secret |-> secret]

KafkaBroker(broker, port, az, pl) ==
    [Broker |-> broker, TargetGroupPort |-> port, AvailabilityZone |-> az,
     PrivateLinkConnection |-> pl]

RECURSIVE EscapeQuotes(_)
EscapeQuotes(s) ==
    IF s = <<>> THEN <<>>
    ELSE (IF Head(s) = "'" THEN <<"'", "'">> ELSE <<Head(s)>>) \o EscapeQuotes(Tail(s))

\* The shared quoting routine: wraps in single quotes, doubles embedded ones.
QuoteString(s) == <<"'">> \o EscapeQuotes(s) \o <<"'">>

\* database.schema.name, leaving out the empty parent scopes.
QualifiedName(databaseName, schemaName, name) ==
    (IF databaseName # EmptyString THEN databaseName \o <<".">> ELSE <<>>)
    \o (IF schemaName # EmptyString THEN schemaName \o <<".">> ELSE <<>>)
    \o name

IdentQualifiedName(i) == QualifiedName(i.DatabaseName, i.SchemaName, i.Name)

----------------------------------------------------------------------------
(* ConnectionKafkaBuilder *)

NewConnectionKafkaBuilder(connectionName, schemaName, databaseName) ==
    [ConnectionName |-> connectionName, SchemaName |-> schemaName,
     DatabaseName |-> databaseName,
     kafkaBrokers |-> <<>>,
     kafkaProgressTopic |-> EmptyString,
     kafkaSSLCa |-> ValueSecretStruct(EmptyString, NoIdentifier),
     kafkaSSLCert |-> ValueSecretStruct(EmptyString, NoIdentifier),
     kafkaSSLKey |-> NoIdentifier,
     kafkaSASLMechanisms |-> EmptyString,
     kafkaSASLUsername |-> ValueSecretStruct(EmptyString, NoIdentifier),
     kafkaSASLPassword |-> NoIdentifier,
     kafkaSSHTunnel |-> NoIdentifier]

KafkaBrokers(bb, v) == [bb EXCEPT !.kafkaBrokers = v]
KafkaProgressTopic(bb, v) == [bb EXCEPT !.kafkaProgressTopic = v]
KafkaSSLCa(bb, v) == [bb EXCEPT !.kafkaSSLCa = v]

\* A setter that stores into its neighbour's field.
KafkaSSLCertIntoCa(bb, v) == [bb EXCEPT !.kafkaSSLCa = v]

KafkaSSLCert(bb, v) == [bb EXCEPT !.kafkaSSLCert = v]
KafkaSSLKey(bb, v) == [bb EXCEPT !.kafkaSSLKey = v]
KafkaSASLMechanisms(bb, v) == [bb EXCEPT !.kafkaSASLMechanisms = v]
KafkaSASLUsername(bb, v) == [bb EXCEPT !.kafkaSASLUsername = v]
KafkaSASLPassword(bb, v) == [bb EXCEPT !.kafkaSASLPassword = v]
KafkaSSHTunnel(bb, v) == [bb EXCEPT !.kafkaSSHTunnel = v]

\* The "BROKERS (" ... ")" pieces when the connection's SSH tunnel is set.
RECURSIVE TunnelBrokers(_, _, _)
TunnelBrokers(brokers, tunnel, i) ==
    IF i > Len(brokers) THEN <<>>
    ELSE << QuoteString(brokers[i].Broker) \o <<" USING SSH TUNNEL ">>
            \o QualifiedName(tunnel.DatabaseName, tunnel.SchemaName, tunnel.Name) >>
         \o (IF i < Len(brokers) THEN << <<",">> >> ELSE <<>>)
         \o TunnelBrokers(brokers, tunnel, i + 1)

\* One broker of the list when no SSH tunnel is set.
PlainOrPrivateLinkBroker(broker) ==
    IF /\ broker.TargetGroupPort # 0
       /\ broker.AvailabilityZone # EmptyString
       /\ broker.PrivateLinkConnection.Name # EmptyString
    THEN QuoteString(broker.Broker) \o <<" USING AWS PRIVATELINK ">>
         \o QualifiedName(broker.PrivateLinkConnection.DatabaseName,
                          broker.PrivateLinkConnection.SchemaName,
                          broker.PrivateLinkConnection.Name)
         \o <<" (PORT ", ToString(broker.TargetGroupPort), ", AVAILABILITY ZONE ">>
         \o QuoteString(broker.AvailabilityZone) \o <<")">>
    ELSE QuoteString(broker.Broker)

RECURSIVE PerBrokerBrokers(_, _)
PerBrokerBrokers(brokers, i) ==
    IF i > Len(brokers) THEN <<>>
    ELSE << PlainOrPrivateLinkBroker(brokers[i]) >>
         \o (IF i < Len(brokers) THEN << <<", ">> >> ELSE <<>>)
         \o PerBrokerBrokers(brokers, i + 1)

\* The tunnel branch taken only for brokers that name no private link.
RECURSIVE PrivateLinkFirstBrokers(_, _, _)
PrivateLinkFirstBrokers(brokers, tunnel, i) ==
    IF i > Len(brokers) THEN <<>>
    ELSE << IF brokers[i].PrivateLinkConnection.Name # EmptyString
            THEN PlainOrPrivateLinkBroker(brokers[i])
            ELSE QuoteString(brokers[i].Broker) \o <<" USING SSH TUNNEL ">>
                 \o QualifiedName(tunnel.DatabaseName, tunnel.SchemaName, tunnel.Name) >>
         \o (IF i < Len(brokers) THEN << <<",">> >> ELSE <<>>)
         \o PrivateLinkFirstBrokers(brokers, tunnel, i + 1)

CreateBrokersPerBrokerChoice(bb) ==
    IF bb.kafkaSSHTunnel.Name # EmptyString
    THEN << <<"BROKERS (">> >> \o PrivateLinkFirstBrokers(bb.kafkaBrokers, bb.kafkaSSHTunnel, 1)
         \o << <<")">> >>
    ELSE << <<"BROKERS (">> >> \o PerBrokerBrokers(bb.kafkaBrokers, 1) \o << <<")">> >>

CreateBrokers(bb) ==
    IF bb.kafkaSSHTunnel.Name # EmptyString
    THEN << <<"BROKERS (">> >> \o TunnelBrokers(bb.kafkaBrokers, bb.kafkaSSHTunnel, 1)
         \o << <<")">> >>
    ELSE << <<"BROKERS (">> >> \o PerBrokerBrokers(bb.kafkaBrokers, 1) \o << <<")">> >>

Clause(cond, piece) == IF cond THEN <<piece>> ELSE <<>>

CreateOptions(bb) ==
    Clause(bb.kafkaProgressTopic # EmptyString,
           <<", PROGRESS TOPIC ">> \o QuoteString(bb.kafkaProgressTopic))
    \o Clause(bb.kafkaSSLCa.Text # EmptyString,
           <<", SSL CERTIFICATE AUTHORITY = ">> \o QuoteString(bb.kafkaSSLCa.Text))
    \o Clause(bb.kafkaSSLCa.Secret.Name # EmptyString,
           <<", SSL CERTIFICATE AUTHORITY = SECRET ">> \o IdentQualifiedName(bb.kafkaSSLCa.Secret))
    \o Clause(bb.kafkaSSLCert.Text # EmptyString,
           <<", SSL CERTIFICATE = ">> \o QuoteString(bb.kafkaSSLCert.Text))
    \o Clause(bb.kafkaSSLCert.Secret.Name # EmptyString,
           <<", SSL CERTIFICATE = SECRET ">> \o IdentQualifiedName(bb.kafkaSSLCert.Secret))
    \o Clause(bb.kafkaSSLKey.Name # EmptyString,
           <<", SSL KEY = SECRET ">> \o IdentQualifiedName(bb.kafkaSSLKey))
    \o Clause(bb.kafkaSASLMechanisms # EmptyString,
           <<", SASL MECHANISMS = ">> \o QuoteString(bb.kafkaSASLMechanisms))
    \o Clause(bb.kafkaSASLUsername.Text # EmptyString,
           <<", SASL USERNAME = ">> \o QuoteString(bb.kafkaSASLUsername.Text))
    \o Clause(bb.kafkaSASLUsername.Secret.Name # EmptyString,
           <<", SASL USERNAME = SECRET ">> \o IdentQualifiedName(bb.kafkaSASLUsername.Secret))
    \o Clause(bb.kafkaSASLPassword.Name # EmptyString,
           <<", SASL PASSWORD = SECRET ">> \o IdentQualifiedName(bb.kafkaSASLPassword))

Create(bb) ==
    << <<"CREATE CONNECTION ">>
       \o QualifiedName(bb.DatabaseName, bb.SchemaName, bb.ConnectionName)
       \o <<" TO KAFKA (">> >>
    \o CreateBrokers(bb)
    \o CreateOptions(bb)
    \o << <<");">> >>

----------------------------------------------------------------------------
(* Inputs of the builder session *)

BrokerShapes ==
    { KafkaBroker(<<"b1:9092">>, 0, EmptyString, NoIdentifier),
      KafkaBroker(<<"b2:9092">>, 9093, <<"use1-az1">>,
                  IdentifierSchemaStruct(<<"pl">>, <<"sch">>, <<"db">>)),
      KafkaBroker(<<"b3:9092">>, 9093, <<"use1-az2">>, NoIdentifier) }

BrokerLists == UNION { [1..n -> BrokerShapes] : n \in 0..MaxBrokers }

Texts == { EmptyString, <<"o", "'", "neil">> }

Identifiers == { NoIdentifier, IdentifierSchemaStruct(<<"s1">>, <<"sch">>, <<"db">>) }

ValueSecrets == { ValueSecretStruct(t, s) : t \in Texts, s \in Identifiers }

ConnectionNames ==
    { <<<<"k1">>, EmptyString, EmptyString>>, <<<<"k1">>, <<"sch">>, <<"db">>>> }

InitBuilder ==
    /\ \E c \in ConnectionNames : b = NewConnectionKafkaBuilder(c[1], c[2], c[3])
    /\ desc = b
    /\ bpc = "building"
    /\ out = <<>>

CallKafkaBrokers ==
    /\ bpc = "building"
    /\ \E v \in BrokerLists :
         /\ b' = KafkaBrokers(b, v)
         /\ desc' = [desc EXCEPT !.kafkaBrokers = v]
    /\ UNCHANGED <<bpc, out>>
    /\ UNCHANGED <<createVars, grantVars>>

CallKafkaProgressTopic ==
    /\ bpc = "building"
    /\ \E v \in Texts :
         /\ b' = KafkaProgressTopic(b, v)
         /\ desc' = [desc EXCEPT !.kafkaProgressTopic = v]
    /\ UNCHANGED <<bpc, out>>
    /\ UNCHANGED <<createVars, grantVars>>

CallKafkaSSLCa ==
    /\ bpc = "building"
    /\ \E v \in ValueSecrets :
         /\ b' = KafkaSSLCa(b, v)
         /\ desc' = [desc EXCEPT !.kafkaSSLCa = v]
    /\ UNCHANGED <<bpc, out>>
    /\ UNCHANGED <<createVars, grantVars>>

CallKafkaSSLCert ==
    /\ bpc = "building"
    /\ \E v \in ValueSecrets :
         /\ b' = KafkaSSLCert(b, v)
         /\ desc' = [desc EXCEPT !.kafkaSSLCert = v]
    /\ UNCHANGED <<bpc, out>>
    /\ UNCHANGED <<createVars, grantVars>>

CallKafkaSSLKey ==
    /\ bpc = "building"
    /\ \E v \in Identifiers :
         /\ b' = KafkaSSLKey(b, v)
         /\ desc' = [desc EXCEPT !.kafkaSSLKey = v]
    /\ UNCHANGED <<bpc, out>>
    /\ UNCHANGED <<createVars, grantVars>>

CallKafkaSASLMechanisms ==
    /\ bpc = "building"
    /\ \E v \in {EmptyString, <<"PLAIN">>} :
         /\ b' = KafkaSASLMechanisms(b, v)
         /\ desc' = [desc EXCEPT !.kafkaSASLMechanisms = v]
    /\ UNCHANGED <<bpc, out>>
    /\ UNCHANGED <<createVars, grantVars>>

CallKafkaSASLUsername ==
    /\ bpc = "building"
    /\ \E v \in ValueSecrets :
         /\ b' = KafkaSASLUsername(b, v)
         /\ desc' = [desc EXCEPT !.kafkaSASLUsername = v]
    /\ UNCHANGED <<bpc, out>>
    /\ UNCHANGED <<createVars, grantVars>>

CallKafkaSASLPassword ==
    /\ bpc = "building"
    /\ \E v \in Identifiers :
         /\ b' = KafkaSASLPassword(b, v)
         /\ desc' = [desc EXCEPT !.kafkaSASLPassword = v]
    /\ UNCHANGED <<bpc, out>>
    /\ UNCHANGED <<createVars, grantVars>>

CallKafkaSSHTunnel ==
    /\ bpc = "building"
    /\ \E v \in Identifiers :
         /\ b' = KafkaSSHTunnel(b, v)
         /\ desc' = [desc EXCEPT !.kafkaSSHTunnel = v]
    /\ UNCHANGED <<bpc, out>>
    /\ UNCHANGED <<createVars, grantVars>>

CallCreate ==
    /\ bpc = "building"
    /\ out' = Create(b)
    /\ bpc' = "built"
    /\ UNCHANGED <<b, desc>>
    /\ UNCHANGED <<createVars, grantVars>>

NextBuilder ==
    \/ CallKafkaBrokers
    \/ CallKafkaProgressTopic
    \/ CallKafkaSSLCa
    \/ CallKafkaSSLCert
    \/ CallKafkaSSLKey
    \/ CallKafkaSASLMechanisms
    \/ CallKafkaSASLUsername
    \/ CallKafkaSASLPassword
    \/ CallKafkaSSHTunnel
    \/ CallCreate

----------------------------------------------------------------------------
(* connectionKafkaCreate *)

\* schema.ResourceData.GetOk: ok is false for the zero value.
GetOk(v) == v # EmptyString

\* "<region>:<external-id>"
TransformIdWithRegion(region, i) == region \o <<":">> \o i

Executed(kind, ok) == [stmt |-> kind, res |-> IF ok THEN "ok" ELSE "err"]

StoreIds == { <<"u42">>, <<"u7">> }
Regions == { <<"aws/us-east-1">>, <<"aws/eu-west-1">> }

InitCreate ==
    /\ \E o \in {EmptyString, <<"r1">>}, c \in {EmptyString, <<"note">>}, r \in Regions :
         d = [ownership_role |-> o, comment |-> c, region |-> r, Id |-> EmptyString]
    /\ pc = "client"
    /\ err = "none"
    /\ cancelled = FALSE
    /\ issued = <<>>
    /\ store = EmptyString
    /\ diags = <<>>

\* utils.GetDBClientFromMeta, then the builder is configured (no statement).
GetDBClientFromMeta ==
    /\ pc = "client"
    /\ \E ok \in BOOLEAN :
         IF ok THEN pc' = "create" /\ diags' = diags
         ELSE pc' = "done" /\ diags' = <<"ClientErr">>
    /\ UNCHANGED <<d, err, cancelled, issued, store>>
    /\ UNCHANGED <<builderVars, grantVars>>

\* A failed Create() that falls through to the ownership step.
BuilderCreateNoReturn ==
    /\ pc = "create"
    /\ \E ok \in BOOLEAN, i \in StoreIds :
         /\ issued' = Append(issued, Executed("Create", ok))
         /\ store' = IF ok THEN i ELSE store
         /\ pc' = "ownership"
         /\ diags' = diags
    /\ UNCHANGED <<d, err, cancelled>>
    /\ UNCHANGED <<builderVars, grantVars>>

\* b.Create(): the store executes the statement and assigns the object an id.
BuilderCreate ==
    /\ pc = "create"
    /\ \E ok \in BOOLEAN, i \in StoreIds :
         /\ issued' = Append(issued, Executed("Create", ok))
         /\ store' = IF ok THEN i ELSE store
         /\ IF ok THEN pc' = "ownership" /\ diags' = diags
            ELSE pc' = "done" /\ diags' = <<"CreateErr">>
    /\ UNCHANGED <<d, err, cancelled>>
    /\ UNCHANGED <<builderVars, grantVars>>

\* The ownership alter issued whether or not a role was declared.
OwnershipAlterAlways ==
    /\ pc = "ownership"
    /\ \E ok \in BOOLEAN :
         /\ issued' = Append(issued, Executed("Alter", ok))
         /\ IF ok THEN pc' = "comment" /\ err' = err
            ELSE pc' = "dropOwnership" /\ err' = "AlterErr"
    /\ UNCHANGED <<d, cancelled, store, diags>>
    /\ UNCHANGED <<builderVars, grantVars>>

OwnershipAlter ==
    /\ pc = "ownership"
    /\ IF ~GetOk(d.ownership_role)
       THEN pc' = "comment" /\ UNCHANGED <<issued, err>>
       ELSE \E ok \in BOOLEAN :
              /\ issued' = Append(issued, Executed("Alter", ok))
              /\ IF ok THEN pc' = "comment" /\ err' = err
                 ELSE pc' = "dropOwnership" /\ err' = "AlterErr"
    /\ UNCHANGED <<d, cancelled, store, diags>>
    /\ UNCHANGED <<builderVars, grantVars>>

\* The drop's own error returned in place of the step's.
OwnershipDropReportsDrop ==
    /\ pc = "dropOwnership"
    /\ \E ok \in BOOLEAN :
         /\ issued' = Append(issued, Executed("Drop", ok))
         /\ store' = IF ok THEN EmptyString ELSE store
         /\ diags' = IF ok THEN <<err>> ELSE <<"DropErr">>
    /\ pc' = "done"
    /\ UNCHANGED <<d, err, cancelled>>
    /\ UNCHANGED <<builderVars, grantVars>>

\* b.Drop() after the failed alter; its result is dropped, err is returned.
OwnershipDrop ==
    /\ pc = "dropOwnership"
    /\ \E ok \in BOOLEAN :
         /\ issued' = Append(issued, Executed("Drop", ok))
         /\ store' = IF ok THEN EmptyString ELSE store
    /\ diags' = <<err>>
    /\ pc' = "done"
    /\ UNCHANGED <<d, err, cancelled>>
    /\ UNCHANGED <<builderVars, grantVars>>

CommentObject ==
    /\ pc = "comment"
    /\ IF ~GetOk(d.comment)
       THEN pc' = "lookup" /\ UNCHANGED <<issued, err>>
       ELSE \E ok \in BOOLEAN :
              /\ issued' = Append(issued, Executed("Comment", ok))
              /\ IF ok THEN pc' = "lookup" /\ err' = err
                 ELSE pc' = "dropComment" /\ err' = "CommentErr"
    /\ UNCHANGED <<d, cancelled, store, diags>>
    /\ UNCHANGED <<builderVars, grantVars>>

\* b.Drop() after the failed comment; its result is dropped, err is returned.
CommentDrop ==
    /\ pc = "dropComment"
    /\ \E ok \in BOOLEAN :
         /\ issued' = Append(issued, Executed("Drop", ok))
         /\ store' = IF ok THEN EmptyString ELSE store
    /\ diags' = <<err>>
    /\ pc' = "done"
    /\ UNCHANGED <<d, err, cancelled>>
    /\ UNCHANGED <<builderVars, grantVars>>

\* A failed lookup compensated like a failed ownership or comment step.
ConnectionIdDropsOnFailure ==
    /\ pc = "lookup"
    /\ \E ok \in BOOLEAN :
         IF ok
         THEN /\ issued' = Append(issued, Executed("ConnectionId", ok))
              /\ d' = [d EXCEPT !.Id = TransformIdWithRegion(d.region, store)]
              /\ pc' = "read" /\ diags' = diags /\ store' = store
         ELSE /\ issued' = Append(Append(issued, Executed("ConnectionId", ok)),
                                  Executed("Drop", TRUE))
              /\ store' = EmptyString
              /\ pc' = "done" /\ diags' = <<"IdErr">> /\ d' = d
    /\ UNCHANGED <<err, cancelled>>
    /\ UNCHANGED <<builderVars, grantVars>>

\* materialize.ConnectionId, then d.SetId(utils.TransformIdWithRegion(region, i)).
ConnectionId ==
    /\ pc = "lookup"
    /\ \E ok \in BOOLEAN :
         /\ issued' = Append(issued, Executed("ConnectionId", ok))
         /\ IF ok
            THEN /\ d' = [d EXCEPT !.Id = TransformIdWithRegion(d.region, store)]
                 /\ pc' = "read" /\ diags' = diags
            ELSE pc' = "done" /\ diags' = <<"IdErr">> /\ d' = d
    /\ UNCHANGED <<err, cancelled, store>>
    /\ UNCHANGED <<builderVars, grantVars>>

\* connectionRead: looks the object up by the persisted id; no row clears the id.
ConnectionRead ==
    /\ pc = "read"
    /\ \E res \in {"ok", "norows", "err"} :
         /\ issued' = Append(issued, [stmt |-> "Read", res |-> res])
         /\ d' = IF res = "norows" THEN [d EXCEPT !.Id = EmptyString] ELSE d
         /\ diags' = IF res = "err" THEN <<"ReadErr">> ELSE diags
    /\ pc' = "done"
    /\ UNCHANGED <<err, cancelled, store>>
    /\ UNCHANGED <<builderVars, grantVars>>

\* The caller cancels ctx between two statements of the create sequence.
Cancel ==
    /\ pc # "done"
    /\ issued # <<>>
    /\ ~cancelled
    /\ cancelled' = TRUE
    /\ UNCHANGED <<d, pc, err, issued, store, diags>>
    /\ UNCHANGED <<builderVars, grantVars>>

NextCreate ==
    \/ GetDBClientFromMeta
    \/ BuilderCreate
    \/ OwnershipAlter
    \/ OwnershipDrop
    \/ CommentObject
    \/ CommentDrop
    \/ ConnectionId
    \/ ConnectionRead
    \/ Cancel

----------------------------------------------------------------------------
(* grantSecretCreate *)

\* Deterministic concatenation of region, object id, role id and privilege.
GrantKey(region, objectId, rId, privilege) ==
    region \o <<":GRANT|SECRET|">> \o objectId \o <<"|">> \o rId \o <<"|">> \o privilege

\* The two resolved ids handed over in each other's place.
KeyOfGrantSwapped(region, i, rId, privilege) == GrantKey(region, rId, i, privilege)

\* key := b.GrantKey(string(region), i, roleId, privilege)
KeyOfGrant(region, i, rId, privilege) == GrantKey(region, i, rId, privilege)

InitGrant ==
    /\ \E p \in {<<"USAGE">>, <<"SELECT">>}, r \in Regions :
         gd = [role_name |-> <<"r1">>, privilege |-> p, region |-> r, Id |-> EmptyString]
    /\ \E o \in StoreIds, r \in StoreIds : catalog = [objectId |-> o, roleId |-> r]
    /\ gpc = "client"
    /\ roleId = EmptyString
    /\ objId = EmptyString
    /\ gissued = <<>>
    /\ gdiags = <<>>

GrantGetDBClientFromMeta ==
    /\ gpc = "client"
    /\ \E ok \in BOOLEAN :
         IF ok THEN gpc' = "grant" /\ gdiags' = gdiags
         ELSE gpc' = "done" /\ gdiags' = <<"ClientErr">>
    /\ UNCHANGED <<gd, roleId, objId, catalog, gissued>>
    /\ UNCHANGED <<builderVars, createVars>>

\* b.Grant()
PrivilegeGrant ==
    /\ gpc = "grant"
    /\ \E ok \in BOOLEAN :
         /\ gissued' = Append(gissued, Executed("Grant", ok))
         /\ IF ok THEN gpc' = "roleId" /\ gdiags' = gdiags
            ELSE gpc' = "done" /\ gdiags' = <<"GrantErr">>
    /\ UNCHANGED <<gd, roleId, objId, catalog>>
    /\ UNCHANGED <<builderVars, createVars>>

\* materialize.RoleId(metaDb, roleName)
RoleId ==
    /\ gpc = "roleId"
    /\ \E ok \in BOOLEAN :
         /\ gissued' = Append(gissued, Executed("RoleId", ok))
         /\ IF ok THEN gpc' = "objectId" /\ roleId' = catalog.roleId /\ gdiags' = gdiags
            ELSE gpc' = "done" /\ roleId' = roleId /\ gdiags' = <<"RoleIdErr">>
    /\ UNCHANGED <<gd, objId, catalog>>
    /\ UNCHANGED <<builderVars, createVars>>

\* materialize.ObjectId(metaDb, obj), then the key is built and d.SetId(key).
ObjectId ==
    /\ gpc = "objectId"
    /\ \E ok \in BOOLEAN :
         /\ gissued' = Append(gissued, Executed("ObjectId", ok))
         /\ IF ok
            THEN /\ objId' = catalog.objectId
                 /\ gd' = [gd EXCEPT !.Id = KeyOfGrant(gd.region, catalog.objectId,
                                                       roleId, gd.privilege)]
                 /\ gpc' = "read" /\ gdiags' = gdiags
            ELSE gpc' = "done" /\ objId' = objId /\ gd' = gd /\ gdiags' = <<"ObjectIdErr">>
    /\ UNCHANGED <<roleId, catalog>>
    /\ UNCHANGED <<builderVars, createVars>>

\* grantRead: looks the grant up by the persisted key; no row clears the id.
GrantRead ==
    /\ gpc = "read"
    /\ \E res \in {"ok", "norows", "err"} :
         /\ gissued' = Append(gissued, [stmt |-> "Read", res |-> res])
         /\ gd' = IF res = "norows" THEN [gd EXCEPT !.Id = EmptyString] ELSE gd
         /\ gdiags' = IF res = "err" THEN <<"ReadErr">> ELSE gdiags
    /\ gpc' = "done"
    /\ UNCHANGED <<roleId, objId, catalog>>
    /\ UNCHANGED <<builderVars, createVars>>

NextGrant ==
    \/ GrantGetDBClientFromMeta
    \/ PrivilegeGrant
    \/ RoleId
    \/ ObjectId
    \/ GrantRead

----------------------------------------------------------------------------
(* Specifications: each runs one of the three programs; the others are idle *)

IdleBuilder ==
    /\ b = <<>>
    /\ desc = <<>>
    /\ bpc = "idle"
    /\ out = <<>>

IdleCreate ==
    /\ d = [ownership_role |-> EmptyString, comment |-> EmptyString,
            region |-> <<"aws/us-east-1">>, Id |-> EmptyString]
    /\ pc = "done"
    /\ err = "none"
    /\ cancelled = FALSE
    /\ issued = <<>>
    /\ store = EmptyString
    /\ diags = <<>>

IdleGrant ==
    /\ gd = [role_name |-> <<"r1">>, privilege |-> <<"USAGE">>,
             region |-> <<"aws/us-east-1">>, Id |-> EmptyString]
    /\ catalog = [objectId |-> <<"u42">>, roleId |-> <<"u7">>]
    /\ gpc = "done"
    /\ roleId = EmptyString
    /\ objId = EmptyString
    /\ gissued = <<>>
    /\ gdiags = <<>>

Init == IdleBuilder /\ InitCreate /\ IdleGrant
Next == NextCreate
Spec == Init /\ [][Next]_vars

BuilderInit == InitBuilder /\ IdleCreate /\ IdleGrant
SpecBuilder == BuilderInit /\ [][NextBuilder]_vars

GrantInit == IdleBuilder /\ IdleCreate /\ InitGrant
SpecGrant == GrantInit /\ [][NextGrant]_vars

----------------------------------------------------------------------------
(* Properties of connectionKafkaCreate (specification Spec) *)

Count(kind) == Cardinality({ i \in DOMAIN issued : issued[i].stmt = kind })

Range(s) == { s[i] : i \in DOMAIN s }

ErrorOf(kind) == IF kind = "Alter" THEN "AlterErr" ELSE "CommentErr"

ForwardKinds == {"Create", "Alter", "Comment", "ConnectionId"}

IsForward(e) == e.stmt \in ForwardKinds

Forward == SelectSeq(issued, IsForward)

\* The forward statements the declared fields call for, in the code's order.
Declared ==
    <<"Create">>
    \o (IF GetOk(d.ownership_role) THEN <<"Alter">> ELSE <<>>)
    \o (IF GetOk(d.comment) THEN <<"Comment">> ELSE <<>>)
    \o <<"ConnectionId">>

\* C1: once Create succeeded and the ownership alter or the comment statement
\* failed, the only statement that follows is one Drop, no identity is
\* persisted, and the returned diagnostics hold the failed step's error alone,
\* whatever the Drop answered.
C1_FailedStepIsCompensatedOnce ==
    \A i \in DOMAIN issued :
        (issued[i].stmt \in {"Alter", "Comment"} /\ issued[i].res = "err") =>
            /\ issued[1] = [stmt |-> "Create", res |-> "ok"]
            /\ Len(issued) <= i + 1
            /\ Len(issued) = i + 1 => issued[i + 1].stmt = "Drop"
            /\ d.Id = EmptyString
            /\ pc = "done" =>
                 /\ Len(issued) = i + 1
                 /\ Count("Drop") = 1
                 /\ diags = <<ErrorOf(issued[i].stmt)>>

C1_Witness ==
    /\ pc = "done"
    /\ Len(issued) = 4
    /\ issued[2] = [stmt |-> "Alter", res |-> "ok"]
    /\ issued[3] = [stmt |-> "Comment", res |-> "err"]
    /\ issued[4] = [stmt |-> "Drop", res |-> "err"]

\* C2: when the ownership alter or the comment statement failed and the
\* compensating Drop failed as well, the returned diagnostics hold both the
\* step's error and the drop's error, and Drop was issued once.
C2_BothErrorsSurfaced ==
    \A i \in DOMAIN issued :
        ( /\ pc = "done"
          /\ issued[i].stmt \in {"Alter", "Comment"} /\ issued[i].res = "err"
          /\ i + 1 \in DOMAIN issued
          /\ issued[i + 1] = [stmt |-> "Drop", res |-> "err"] ) =>
            /\ ErrorOf(issued[i].stmt) \in Range(diags)
            /\ "DropErr" \in Range(diags)
            /\ Count("Drop") = 1

\* A declared ownership or comment step has not completed yet.
StepPending ==
    \/ pc = "ownership" /\ (GetOk(d.ownership_role) \/ GetOk(d.comment))
    \/ pc = "comment" /\ GetOk(d.comment)

\* C3: once ctx is cancelled no forward statement (Create, ownership alter,
\* comment, identity lookup) is issued any more and no identity is persisted;
\* and a cancellation found while a declared ownership or comment step is
\* pending is answered by the compensating Drop as the next statement.
C3_CancelStopsForwardStatements ==
    [][ cancelled =>
          /\ Len(issued') > Len(issued) => ~IsForward(issued'[Len(issued')])
          /\ d.Id = EmptyString => d'.Id = EmptyString
          /\ (StepPending /\ pc' # pc) =>
                /\ Len(issued') = Len(issued) + 1
                /\ issued'[Len(issued')].stmt = "Drop" ]_vars

\* C8: when the Create statement failed, it is the only statement issued, no
\* identity is persisted, and the Create error is what is returned.
C8_FailedCreateStopsEverything ==
    (issued # <<>> /\ issued[1].res = "err") =>
        /\ issued = << [stmt |-> "Create", res |-> "err"] >>
        /\ pc = "done"
        /\ diags = <<"CreateErr">>
        /\ d.Id = EmptyString
        /\ store = EmptyString

C8_Witness ==
    /\ pc = "done"
    /\ issued = << [stmt |-> "Create", res |-> "err"] >>
    /\ GetOk(d.ownership_role) /\ GetOk(d.comment)

\* C9: when the identity lookup failed after Create and every declared step
\* succeeded, it is the last statement issued, no Drop was issued, the object
\* is still in the store, no identity is persisted and the lookup error is
\* returned.
C9_FailedLookupIsNotCompensated ==
    \A i \in DOMAIN issued :
        (issued[i] = [stmt |-> "ConnectionId", res |-> "err"]) =>
            /\ \A j \in 1..(i - 1) : issued[j].res = "ok"
            /\ Len(issued) = i
            /\ Count("Drop") = 0
            /\ store # EmptyString
            /\ d.Id = EmptyString
            /\ pc = "done"
            /\ diags = <<"IdErr">>

C9_Witness ==
    /\ pc = "done"
    /\ Len(issued) = 4
    /\ issued[4] = [stmt |-> "ConnectionId", res |-> "err"]
    /\ store # EmptyString

\* C10: the forward statements issued are a prefix of Create, ownership alter
\* (if a role is declared), comment (if a comment is declared), identity
\* lookup, each once and each after the one before it answered ok; none
\* follows a Drop or the read; and an identity is persisted only when all of
\* them answered ok.
C10_ForwardStatementsInOrder ==
    /\ Len(Forward) <= Len(Declared)
    /\ \A i \in DOMAIN Forward :
          /\ Forward[i].stmt = Declared[i]
          /\ i < Len(Forward) => Forward[i].res = "ok"
    /\ \A i, j \in DOMAIN issued :
          (i < j /\ ~IsForward(issued[i])) => ~IsForward(issued[j])
    /\ d.Id # EmptyString =>
          /\ Len(Forward) = Len(Declared)
          /\ \A i \in DOMAIN Forward : Forward[i].res = "ok"

C10_Witness ==
    /\ pc = "done"
    /\ d.Id # EmptyString
    /\ Len(Forward) = 4

----------------------------------------------------------------------------
(* Properties of grantSecretCreate (specification SpecGrant) *)

\* C7: a persisted grant key is the key of (region, the store's id of the
\* object, the store's id of the role, privilege) and of nothing else: the
\* role id, resolved first, sits in the role's place and the object id,
\* resolved second, in the object's place.
C7_GrantKeyOfResolvedIds ==
    gd.Id # EmptyString =>
        /\ gd.Id = GrantKey(gd.region, catalog.objectId, catalog.roleId, gd.privilege)
        /\ gissued[1] = [stmt |-> "Grant", res |-> "ok"]
        /\ objId = catalog.objectId /\ roleId = catalog.roleId

C7_Witness ==
    /\ gpc = "done"
    /\ gd.Id # EmptyString
    /\ catalog.objectId # catalog.roleId

----------------------------------------------------------------------------
(* Properties of ConnectionKafkaBuilder.Create (specification SpecBuilder) *)

\* The piece that closes the BROKERS list.
CloseIdx(o) ==
    CHOOSE k \in 3..Len(o) : o[k] = <<")">> /\ \A j \in 3..(k - 1) : o[j] # <<")">>

IsBrokerPiece(p) == p \notin { <<",">>, <<", ">> }

BrokerPieces(o) == SelectSeq(SubSeq(o, 3, CloseIdx(o) - 1), IsBrokerPiece)

HasToken(p, t) == \E k \in DOMAIN p : p[k] = t

\* '<broker>' USING SSH TUNNEL <tunnel>, and nothing else.
IsTunnelForm(p, broker, tunnel) ==
    /\ ~HasToken(p, " USING AWS PRIVATELINK ")
    /\ \E k \in DOMAIN p :
          /\ p[k] = " USING SSH TUNNEL "
          /\ SubSeq(p, 1, k - 1) = QuoteString(broker.Broker)
          /\ SubSeq(p, k + 1, Len(p)) = IdentQualifiedName(tunnel)

\* C4: when the builder's SSH tunnel has a name, the BROKERS list of the
\* statement holds one piece per broker, in order, each in the tunnel form,
\* whatever the broker's own port, availability zone and private link are.
C4_TunnelOverridesEveryBroker ==
    (bpc = "built" /\ b.kafkaSSHTunnel.Name # EmptyString) =>
        LET bp == BrokerPieces(out) IN
        /\ out[2] = <<"BROKERS (">>
        /\ Len(bp) = Len(b.kafkaBrokers)
        /\ \A i \in DOMAIN bp : IsTunnelForm(bp[i], b.kafkaBrokers[i], b.kafkaSSHTunnel)

C4_Witness ==
    /\ bpc = "built"
    /\ b.kafkaSSHTunnel.Name # EmptyString
    /\ Len(b.kafkaBrokers) = 2
    /\ b.kafkaBrokers[1].PrivateLinkConnection.Name # EmptyString
    /\ b.kafkaBrokers[1].TargetGroupPort # 0
    /\ b.kafkaBrokers[2].TargetGroupPort = 0
    /\ Len(BrokerPieces(out)) = 2

\* The leading tokens of the plaintext and of the secret clause of each
\* SecretValue field.
SecretValueClauses ==
    { <<", SSL CERTIFICATE AUTHORITY = ", ", SSL CERTIFICATE AUTHORITY = SECRET ">>,
      <<", SSL CERTIFICATE = ", ", SSL CERTIFICATE = SECRET ">>,
      <<", SASL USERNAME = ", ", SASL USERNAME = SECRET ">> }

ClauseCount(o, heads) ==
    Cardinality({ k \in DOMAIN o : o[k] # <<>> /\ o[k][1] \in heads })

\* C5: the statement holds at most one clause for each SecretValue field,
\* never the plaintext and the secret clause together, and no such clause
\* with an empty value.
C5_AtMostOneClausePerSecretValue ==
    bpc = "built" =>
        \A f \in SecretValueClauses :
            /\ ClauseCount(out, {f[1], f[2]}) <= 1
            /\ \A k \in DOMAIN out :
                  /\ out[k][1] = f[1] => out[k] # <<f[1]>> \o QuoteString(EmptyString)
                  /\ out[k][1] = f[2] => Len(out[k]) > 1

ClauseRank(p) ==
    CASE p[1] = ", PROGRESS TOPIC " -> 1
      [] p[1] \in {", SSL CERTIFICATE AUTHORITY = ", ", SSL CERTIFICATE AUTHORITY = SECRET "} -> 2
      [] p[1] \in {", SSL CERTIFICATE = ", ", SSL CERTIFICATE = SECRET "} -> 3
      [] p[1] = ", SSL KEY = SECRET " -> 4
      [] p[1] = ", SASL MECHANISMS = " -> 5
      [] p[1] \in {", SASL USERNAME = ", ", SASL USERNAME = SECRET "} -> 6
      [] p[1] = ", SASL PASSWORD = SECRET " -> 7
      [] OTHER -> 0

\* Brokers first, then the optional clauses by rising rank, then the close.
ClauseOrderOK(o) ==
    /\ Len(o) >= 4
    /\ o[1][1] = "CREATE CONNECTION "
    /\ o[2] = <<"BROKERS (">>
    /\ o[Len(o)] = <<");">>
    /\ \A k \in (CloseIdx(o) + 1)..(Len(o) - 1) :
          /\ ClauseRank(o[k]) > 0
          /\ k + 1 < Len(o) => ClauseRank(o[k]) <= ClauseRank(o[k + 1])

\* C6: whatever the order of the setter calls, the statement is the one of
\* the last value handed to each setter, with the clauses in the fixed order
\* brokers, progress topic, SSL CA, SSL certificate, SSL key, SASL
\* mechanisms, SASL username, SASL password.
C6_CreateDependsOnFinalValuesOnly ==
    bpc = "built" => (out = Create(desc) /\ ClauseOrderOK(out))

C6_Witness ==
    /\ bpc = "built"
    /\ Len(desc.kafkaBrokers) = 2
    /\ desc.kafkaProgressTopic # EmptyString
    /\ desc.kafkaSSLCa.Text # EmptyString
    /\ desc.kafkaSSLCert.Secret.Name # EmptyString
    /\ desc.kafkaSSLKey.Name # EmptyString
    /\ desc.kafkaSASLMechanisms # EmptyString
    /\ desc.kafkaSASLUsername.Text # EmptyString
    /\ desc.kafkaSASLPassword.Name # EmptyString
    /\ Len(out) = 14

====
